---- MODULE Spec2Model ----
(***************************************************************************)
(* Model of the sentinel-based trigger engine of rune-scroller             *)
(* (src/lib/runeScroller.js with createSentinel of dom-utils.js and the    *)
(* observer helpers of observer-utils.js).                                 *)
(*                                                                         *)
(* One attachment is modelled: a target element inside a document body,    *)
(* the wrapper and sentinels the action creates, the IntersectionObserver  *)
(* and ResizeObserver it drives, and the handle {update, destroy} it       *)
(* returns.  Platform objects follow the DOM / W3C semantics:              *)
(*   - IntersectionObserver.observe() registers a target also after a      *)
(*     disconnect(); disconnect() empties the set of observed targets but  *)
(*     leaves entries that were already queued for delivery;               *)
(*   - ChildNode.remove()/replaceWith() and insertAdjacentElement() on a   *)
(*     node without parent do nothing.                                     *)
(*                                                                         *)
(* createSentinel returns the plain object {element, id}; runeScroller.js  *)
(* binds that object to `sentinel` and `currentSentinel` and uses it as if *)
(* it were the element: it hands it to appendChild and observe, and calls  *)
(* replaceWith and remove on it.  The two method calls raise TypeError in  *)
(* every JavaScript engine.  What appendChild and observe do with an       *)
(* argument that is not a Node depends on the platform: a DOM that checks  *)
(* its arguments raises TypeError, one that does not ignores the object    *)
(* (appendChild) or keeps it as a target (observe).  Both are modelled.    *)
(*                                                                         *)
(* Specifications:                                                         *)
(*   Spec        the attachment with every operation and platform event;   *)
(*   SpecConfig  the same attachment with attach/update inputs that range  *)
(*               over the presentation fields and the visibility callback; *)
(*   SpecResize  attach, resize, update and destroy under weak fairness of *)
(*               the ResizeObserver callback;                              *)
(*   SpecHelpers createSentinel, disconnectObserver, calculateRootMargin   *)
(*               called directly;                                          *)
(*   SpecPair    two attachments on two targets of one document;           *)
(*   SpecAnimate the animate action, in both versions the repository has;  *)
(*   SpecHook    the useIntersection / useIntersectionOnce composables;    *)
(*   SpecTracker createSentinel of lib/dom-utils.js, which follows the     *)
(*               target's size with a ResizeObserver of its own.           *)
(***************************************************************************)
EXTENDS Integers, Sequences, FiniteSets, TLC

\* ------------------------------------------------------------------ bounds
MaxSentinels    == 3   \* createSentinel calls per behaviour
MaxQueue        == 2   \* intersection entries queued for one delivery
MaxVisibleCalls == 2   \* recorded onVisible invocations
MaxDestroys     == 2   \* destroy() calls per behaviour
MaxUpdates      == 2   \* update() calls per behaviour

\* ------------------------------------------------------------ optional values
\* A JavaScript value that may be undefined: <<>> is undefined, <<v>> is v.
None    == <<>>
Some(v) == <<v>>
IsSet(m)      == m # None
TruthyBool(m) == m = Some(TRUE)
TruthyStr(m)  == m # None /\ m # Some("")
TruthyNum(m)  == m # None /\ m # Some(0)

\* ------------------------------------------------------------------ DOM nodes
TARGET  == 1
WRAPPER == 2
SIB_A   == 3
SIB_B   == 4
SentinelNode(k) == 10 + k      \* the k-th element made by createSentinel
\* The plain object {element, id} that createSentinel returns for the element
\* node; it is not a Node.
SentinelObject(node) == 100 + node
IsNode(x) == x < 100

InSeq(n, seq)   == \E i \in DOMAIN seq : seq[i] = n
Without(seq, n) == SelectSeq(seq, LAMBDA x : x # n)
IndexOf(seq, n) == CHOOSE i \in DOMAIN seq : seq[i] = n

\* A document is the pair of child lists [body, wrapper]; every other node is
\* a leaf.  ParentOf gives the parent of n ("none" when it has no parent).
ParentOf(d, n) ==
    IF InSeq(n, d.body) THEN "body"
    ELSE IF InSeq(n, d.wrapper) THEN "wrapper"
    ELSE "none"

\* The wrapper may be detached; a node is in the document when it hangs under
\* the body.
InDocument(d, n) ==
    \/ InSeq(n, d.body)
    \/ InSeq(n, d.wrapper) /\ InSeq(WRAPPER, d.body)

\* ChildNode.remove()
NodeRemove(d, n) == [body |-> Without(d.body, n), wrapper |-> Without(d.wrapper, n)]

InsertBeforeIn(seq, ref, n) ==
    LET i == IndexOf(seq, ref)
    IN  SubSeq(seq, 1, i - 1) \o <<n>> \o SubSeq(seq, i, Len(seq))

\* ref.insertAdjacentElement('beforebegin', n): nothing happens when ref has
\* no parent, otherwise n leaves its parent and lands right before ref.
InsertAdjacentBeforeBegin(d, ref, n) ==
    LET p  == ParentOf(d, ref)
        d1 == NodeRemove(d, n)
    IN  CASE p = "none"    -> d
          [] p = "body"    -> [d1 EXCEPT !.body = InsertBeforeIn(d1.body, ref, n)]
          [] p = "wrapper" -> [d1 EXCEPT !.wrapper = InsertBeforeIn(d1.wrapper, ref, n)]

\* wrapper.appendChild(n)
WrapperAppendChild(d, n) ==
    LET d1 == NodeRemove(d, n)
    IN  [d1 EXCEPT !.wrapper = Append(d1.wrapper, n)]

\* --------------------------------------------------------------- dom-utils.js
ANIMATION_TYPES ==
    {"fade-in", "fade-in-up", "fade-in-down", "fade-in-left", "fade-in-right",
     "zoom-in", "zoom-out", "zoom-in-up", "zoom-in-left", "zoom-in-right",
     "flip", "flip-x", "slide-rotate", "bounce-in"}

DefaultSentinelColor == "#00e0ff"

Ms(n) == ToString(n) \o "ms"
AutoId(k) == "sentinel-" \o ToString(k)

\* setCSSVariables(element, duration, delay = 0) on the style record css
setCSSVariables(css, duration) ==
    [duration |-> IF IsSet(duration) THEN Some(Ms(duration[1])) ELSE css.duration,
     delay    |-> Some(Ms(0))]

\* createSentinel that drops the offset of a target without height
createSentinel_zeroHeight(h, debug, offset, sentinelColor, debugLabel, sentinelId, counter, made) ==
    LET off         == IF IsSet(offset) THEN offset[1] ELSE 0
        color       == IF IsSet(sentinelColor) THEN sentinelColor[1] ELSE DefaultSentinelColor
        label       == IF IsSet(debugLabel) THEN debugLabel[1] ELSE ""
        sentinelTop == IF h = 0 THEN 0 ELSE h + off
        auto        == ~TruthyStr(sentinelId)
        counter1    == IF auto THEN counter + 1 ELSE counter
        id          == IF auto THEN AutoId(counter1) ELSE sentinelId[1]
        dbg         == TruthyBool(debug)
    IN  [counter |-> counter1,
         issued  |-> IF auto THEN <<id>> ELSE <<>>,
         sentinel |->
            [node       |-> SentinelNode(made + 1),
             id         |-> id,
             top        |-> sentinelTop,
             debug      |-> dbg,
             background |-> IF dbg THEN Some(color) ELSE None,
             text       |-> IF dbg THEN (IF label # "" THEN label ELSE id) ELSE "",
             hidden     |-> ~dbg,
             pointerEvents |-> "none"]]

\* createSentinel that advances the counter only from its initial value
createSentinel_reuseCounter(h, debug, offset, sentinelColor, debugLabel, sentinelId, counter, made) ==
    LET off         == IF IsSet(offset) THEN offset[1] ELSE 0
        color       == IF IsSet(sentinelColor) THEN sentinelColor[1] ELSE DefaultSentinelColor
        label       == IF IsSet(debugLabel) THEN debugLabel[1] ELSE ""
        sentinelTop == h + off
        auto        == ~TruthyStr(sentinelId)
        counter1    == IF auto THEN (IF counter = 0 THEN 1 ELSE counter) ELSE counter
        id          == IF auto THEN AutoId(counter1) ELSE sentinelId[1]
        dbg         == TruthyBool(debug)
    IN  [counter |-> counter1,
         issued  |-> IF auto THEN <<id>> ELSE <<>>,
         sentinel |->
            [node       |-> SentinelNode(made + 1),
             id         |-> id,
             top        |-> sentinelTop,
             debug      |-> dbg,
             background |-> IF dbg THEN Some(color) ELSE None,
             text       |-> IF dbg THEN (IF label # "" THEN label ELSE id) ELSE "",
             hidden     |-> ~dbg,
             pointerEvents |-> "none"]]

\* A createSentinel that hands out one cached element to every caller
createSentinel_sharedElement(h, debug, offset, sentinelColor, debugLabel, sentinelId, counter, made) ==
    LET off         == IF IsSet(offset) THEN offset[1] ELSE 0
        color       == IF IsSet(sentinelColor) THEN sentinelColor[1] ELSE DefaultSentinelColor
        label       == IF IsSet(debugLabel) THEN debugLabel[1] ELSE ""
        sentinelTop == h + off
        auto        == ~TruthyStr(sentinelId)
        counter1    == IF auto THEN counter + 1 ELSE counter
        id          == IF auto THEN AutoId(counter1) ELSE sentinelId[1]
        dbg         == TruthyBool(debug)
    IN  [counter |-> counter1,
         issued  |-> IF auto THEN <<id>> ELSE <<>>,
         sentinel |->
            [node       |-> SentinelNode(1),
             id         |-> id,
             top        |-> sentinelTop,
             debug      |-> dbg,
             background |-> IF dbg THEN Some(color) ELSE None,
             text       |-> IF dbg THEN (IF label # "" THEN label ELSE id) ELSE "",
             hidden     |-> ~dbg,
             pointerEvents |-> "none"]]

\* createSentinel(element, debug, offset, sentinelColor, debugLabel, sentinelId)
\* for a target of offsetHeight h, with the module counter at `counter` and
\* `made` sentinel elements created so far.  Returns the created sentinel
\* (node, attributes and style), the new counter, and the identifier it
\* generated from the counter, if any.
createSentinel(h, debug, offset, sentinelColor, debugLabel, sentinelId, counter, made) ==
    LET off         == IF IsSet(offset) THEN offset[1] ELSE 0
        color       == IF IsSet(sentinelColor) THEN sentinelColor[1] ELSE DefaultSentinelColor
        label       == IF IsSet(debugLabel) THEN debugLabel[1] ELSE ""
        sentinelTop == h + off
        auto        == ~TruthyStr(sentinelId)
        counter1    == IF auto THEN counter + 1 ELSE counter
        id          == IF auto THEN AutoId(counter1) ELSE sentinelId[1]
        dbg         == TruthyBool(debug)
    IN  [counter |-> counter1,
         issued  |-> IF auto THEN <<id>> ELSE <<>>,
         sentinel |->
            [node       |-> SentinelNode(made + 1),
             id         |-> id,
             top        |-> sentinelTop,
             debug      |-> dbg,
             background |-> IF dbg THEN Some(color) ELSE None,
             text       |-> IF dbg THEN (IF label # "" THEN label ELSE id) ELSE "",
             hidden     |-> ~dbg,
             pointerEvents |-> "none"]]

\* ----------------------------------------------------------- observer-utils.js
\* disconnectObserver without the isConnected test
disconnectObserver_unguarded(observer, state) ==
    IF IsSet(observer)
    THEN [observer |-> Some({}), state |-> [isConnected |-> FALSE], calls |-> 1]
    ELSE [observer |-> observer, state |-> state, calls |-> 0]

\* observer is None (null/undefined) or Some(set of nodes it observes); state
\* is the record {isConnected}.  Returns the observer and state afterwards
\* and the number of observer.disconnect() calls made.
disconnectObserver(observer, state) ==
    IF state.isConnected /\ IsSet(observer)
    THEN [observer |-> Some({}), state |-> [isConnected |-> FALSE], calls |-> 1]
    ELSE [observer |-> observer, state |-> state, calls |-> 0]

\* createManagedObserver(target, callback, options): a new observer that
\* observes target.
createManagedObserver(target) == [observer |-> Some({target}), isConnected |-> TRUE]

\* -------------------------------------------------------------------- state
\* `${n}%` of animations.js line 21
Percent(n) == ToString(n) \o "%"

\* A calculateRootMargin in which the offset wins over a custom rootMargin
calculateRootMargin_offsetFirst(offset, rootMargin) ==
    IF IsSet(offset)
    THEN "-" \o Percent(100 - offset[1]) \o " 0px -" \o Percent(offset[1]) \o " 0px"
    ELSE IF IsSet(rootMargin) THEN rootMargin[1] ELSE "-10% 0px -10% 0px"

\* calculateRootMargin(offset, rootMargin), animations.js lines 19-22:
\* rootMargin ?? (offset !== undefined ? `-${100 - offset}% 0px -${offset}% 0px`
\*                                     : '-10% 0px -10% 0px')
calculateRootMargin(offset, rootMargin) ==
    IF IsSet(rootMargin)
    THEN rootMargin[1]
    ELSE IF IsSet(offset)
         THEN "-" \o Percent(100 - offset[1]) \o " 0px -" \o Percent(offset[1]) \o " 0px"
         ELSE "-10% 0px -10% 0px"

VARIABLES
    phase,            \* "unattached", "attached", "inert" (attached without window)
                      \* or "failed" (runeScroller raised an error)
    dom,              \* [body, wrapper]: child lists of the body and of the wrapper
    height,           \* element.offsetHeight
    classes,          \* element.classList
    attrs,            \* element attributes [dataAnimation, dataSentinelId]
    css,              \* element.style custom properties [duration, delay]
    options,          \* the closure variable `options`
    state,            \* the closure constant `state` = {isConnected}
    intersectionObserver, \* None before attach, else Some(observed nodes)
    ioQueue,          \* entries the platform has queued for the next callback
    ioPrev,           \* isIntersecting last reported for the observed target
    resizeObserver,   \* "undefined", "observing" or "disconnected"
    roPending,        \* a resize notification is due
    currentSentinel,  \* None before attach, else Some(sentinel)
    sentinelCounter,  \* module variable of dom-utils.js
    made,             \* number of sentinel elements created so far
    \* ---- history of the run, written but never read by the program
    body0,            \* the body's children before attach
    issued,           \* identifiers generated from sentinelCounter, in order
    helperCall,       \* the last direct call of an exported helper, with its result
    updateCount,      \* update() calls on the handle so far
    onVisibleCalls,   \* arguments of the onVisible invocations so far
    unwrapCount,      \* destroy() calls that moved the target to before the wrapper
    destroyCount,     \* destroy() calls so far
    inertCalls,       \* operations called on the inert handle
    lastEntries,      \* first and last entry handed to the last intersection callback
                      \* of the attachment on TARGET
    externalChange,   \* external code removed the target
    thrown,           \* the error the last handler call raised, or "none"
    everRepeat,       \* options.repeat has been truthy at some point since attach
    \* ---- the other exports of the library, each with its own node
    animAction,       \* None, or the closure and node of one animate() action
    hook,             \* None, or the closure of one useIntersection composable
    peer,             \* a second runeScroller attachment, on another target
    tracker           \* None, or one sentinel made by createSentinel of lib/dom-utils.js

prog == <<phase, dom, height, classes, attrs, css, options, state,
          intersectionObserver, ioQueue, ioPrev, resizeObserver, roPending,
          currentSentinel, sentinelCounter, made>>
hist == <<body0, issued, helperCall, updateCount, onVisibleCalls, unwrapCount,
          destroyCount, inertCalls, lastEntries, externalChange, thrown,
          everRepeat>>
vars == <<prog, hist, animAction, hook, peer, tracker>>

\* The part of the state that the handlers of one attachment read and write,
\* as one record, so that a handler is a function from record to record.
Cur ==
    [dom |-> dom, height |-> height, classes |-> classes, attrs |-> attrs,
     css |-> css, options |-> options, state |-> state,
     intersectionObserver |-> intersectionObserver, ioPrev |-> ioPrev,
     resizeObserver |-> resizeObserver, roPending |-> roPending,
     currentSentinel |-> currentSentinel, sentinelCounter |-> sentinelCounter,
     made |-> made, issued |-> issued,
     onVisibleCalls |-> onVisibleCalls,
     unwrapCount |-> unwrapCount, destroyCount |-> destroyCount,
     thrown |-> thrown]

Becomes(s) ==
    \E t \in {s} :
      /\ dom' = t.dom
      /\ height' = t.height
      /\ classes' = t.classes
      /\ attrs' = t.attrs
      /\ css' = t.css
      /\ options' = t.options
      /\ state' = t.state
      /\ intersectionObserver' = t.intersectionObserver
      /\ ioPrev' = t.ioPrev
      /\ resizeObserver' = t.resizeObserver
      /\ roPending' = t.roPending
      /\ currentSentinel' = t.currentSentinel
      /\ sentinelCounter' = t.sentinelCounter
      /\ made' = t.made
      /\ issued' = t.issued
      /\ onVisibleCalls' = t.onVisibleCalls
      /\ unwrapCount' = t.unwrapCount
      /\ destroyCount' = t.destroyCount
      /\ thrown' = t.thrown
      /\ everRepeat' = (everRepeat \/ t.options.repeat = Some(TRUE))

NoOptions ==
    [animation |-> None, duration |-> None, repeat |-> None, debug |-> None,
     offset |-> None, sentinelColor |-> None, debugLabel |-> None,
     sentinelId |-> None, onVisible |-> None]
OptionFields == DOMAIN NoOptions

\* {...a, ...b}: every own key of b replaces the field of a, also a key whose
\* value is undefined.  A field of b that is None is an absent key unless it
\* is listed in undefinedKeys.
Spread(a, b, undefinedKeys) ==
    [f \in OptionFields |-> IF IsSet(b[f]) \/ f \in undefinedKeys THEN b[f] ELSE a[f]]

Observed(s) == IF IsSet(s.intersectionObserver) THEN s.intersectionObserver[1] ELSE {}

\* ------------------------------------------------------------ runeScroller.js
\* Every handler leaves in `thrown` the error it raised ("none" when it
\* returned normally); what it had done before the throw stays done.

\* recreateSentinel() that observes the new sentinel object before line 127
recreateSentinel_observeFirst(s) ==
    LET r == createSentinel(s.height, s.options.debug, s.options.offset,
                            s.options.sentinelColor, s.options.debugLabel,
                            s.options.sentinelId, s.sentinelCounter, s.made)
    IN  [s EXCEPT !.sentinelCounter = r.counter,
                  !.made = s.made + 1,
                  !.issued = @ \o r.issued,
                  !.intersectionObserver =
                      Some(Observed(s) \cup {SentinelObject(r.sentinel.node)}),
                  !.thrown = "TypeError"]

\* recreateSentinel(): the closure of lines 118-132.  createSentinel runs
\* (lines 119-126), then line 127 calls replaceWith on currentSentinel, which
\* is the plain object {element, id}: TypeError, and lines 128-131 never run.
recreateSentinel(s) ==
    LET r == createSentinel(s.height, s.options.debug, s.options.offset,
                            s.options.sentinelColor, s.options.debugLabel,
                            s.options.sentinelId, s.sentinelCounter, s.made)
    IN  [s EXCEPT !.sentinelCounter = r.counter,
                  !.made = s.made + 1,
                  !.issued = @ \o r.issued,
                  !.thrown = "TypeError"]

\* destroy() that also takes is-visible off the target
destroy_clearMarker(s) ==
    LET d   == disconnectObserver(s.intersectionObserver, s.state)
        ro  == IF s.resizeObserver # "undefined" THEN "disconnected" ELSE s.resizeObserver
    IN  [s EXCEPT !.intersectionObserver = d.observer, !.state = d.state,
                  !.resizeObserver = ro, !.roPending = FALSE,
                  !.classes = @ \ {"is-visible"},
                  !.destroyCount = @ + 1, !.thrown = "TypeError"]

\* destroy() of the returned handle, lines 161-174.  Line 167 calls remove()
\* on currentSentinel, the plain object {element, id}: TypeError, and lines
\* 168-173 never run.
destroy(s) ==
    LET d   == disconnectObserver(s.intersectionObserver, s.state)
        ro  == IF s.resizeObserver # "undefined" THEN "disconnected" ELSE s.resizeObserver
    IN  [s EXCEPT !.intersectionObserver = d.observer,
                  !.state = d.state,
                  !.resizeObserver = ro,
                  !.roPending = FALSE,
                  !.destroyCount = @ + 1,
                  !.thrown = "TypeError"]

\* options?.onVisible?.(element), line 102.  The callbacks a caller may pass
\* are modelled by what they do: "record" only notes the call, "throw" notes
\* it and raises an Error of its own, "destroy" notes it and calls destroy()
\* of the handle.  The call is in no try block: what the callback raises
\* leaves the intersection callback at line 102.
callOnVisible(s) ==
    CASE s.options.onVisible = None -> s
      [] s.options.onVisible = Some("record") ->
            [s EXCEPT !.onVisibleCalls = Append(@, TARGET)]
      [] s.options.onVisible = Some("throw") ->
            [s EXCEPT !.onVisibleCalls = Append(@, TARGET), !.thrown = "Error"]
      [] s.options.onVisible = Some("destroy") ->
            destroy([s EXCEPT !.onVisibleCalls = Append(@, TARGET)])

\* The callback with a plain `else` at line 107
intersectionCallback_alwaysRemove(s, entries) ==
    LET isIntersecting == entries[1]
        s0 == [s EXCEPT !.thrown = "none"]
    IN  IF isIntersecting
        THEN LET s1 == [s0 EXCEPT !.classes = @ \cup {"is-visible"}]
                 s2 == callOnVisible(s1)
                 d  == disconnectObserver(s2.intersectionObserver, s2.state)
             IN  IF s2.thrown # "none"
                 THEN s2
                 ELSE IF ~TruthyBool(s2.options.repeat)
                      THEN [s2 EXCEPT !.intersectionObserver = d.observer,
                                      !.state = d.state]
                      ELSE s2
        ELSE [s0 EXCEPT !.classes = @ \ {"is-visible"}]

\* The callback without the branch of lines 107-110
intersectionCallback_noRemove(s, entries) ==
    LET isIntersecting == entries[1]
        s0 == [s EXCEPT !.thrown = "none"]
    IN  IF isIntersecting
        THEN LET s1 == [s0 EXCEPT !.classes = @ \cup {"is-visible"}]
                 s2 == callOnVisible(s1)
                 d  == disconnectObserver(s2.intersectionObserver, s2.state)
             IN  IF s2.thrown # "none"
                 THEN s2
                 ELSE IF ~TruthyBool(s2.options.repeat)
                      THEN [s2 EXCEPT !.intersectionObserver = d.observer,
                                      !.state = d.state]
                      ELSE s2
        ELSE s0

\* The callback without the repeat test at line 104
intersectionCallback_alwaysDisconnect(s, entries) ==
    LET isIntersecting == entries[1]
        s0 == [s EXCEPT !.thrown = "none"]
    IN  IF isIntersecting
        THEN LET s1 == [s0 EXCEPT !.classes = @ \cup {"is-visible"}]
                 s2 == callOnVisible(s1)
                 d  == disconnectObserver(s2.intersectionObserver, s2.state)
             IN  IF s2.thrown # "none" THEN s2
                 ELSE [s2 EXCEPT !.intersectionObserver = d.observer, !.state = d.state]
        ELSE IF TruthyBool(s0.options.repeat)
             THEN [s0 EXCEPT !.classes = @ \ {"is-visible"}]
             ELSE s0

\* The IntersectionObserver callback, lines 96-111.  An error raised by the
\* onVisible callback leaves the callback at line 102.
intersectionCallback(s, entries) ==
    LET isIntersecting == entries[1]
        s0 == [s EXCEPT !.thrown = "none"]
    IN  IF isIntersecting
        THEN LET s1 == [s0 EXCEPT !.classes = @ \cup {"is-visible"}]
                 s2 == callOnVisible(s1)
                 d  == disconnectObserver(s2.intersectionObserver, s2.state)
             IN  IF s2.thrown # "none"
                 THEN s2
                 ELSE IF ~TruthyBool(s2.options.repeat)
                      THEN [s2 EXCEPT !.intersectionObserver = d.observer,
                                      !.state = d.state]
                      ELSE s2
        ELSE IF TruthyBool(s0.options.repeat)
             THEN [s0 EXCEPT !.classes = @ \ {"is-visible"}]
             ELSE s0

\* update(newOptions) of the returned handle, lines 143-160.  undefinedKeys
\* are the own keys of newOptions whose value is undefined.
update(s, newOptions, undefinedKeys) ==
    LET s0 == [s EXCEPT !.thrown = "none"]
        s1 == IF TruthyStr(newOptions.animation)
              THEN [s0 EXCEPT !.attrs.dataAnimation = newOptions.animation]
              ELSE s0
        s2 == IF TruthyNum(newOptions.duration)
              THEN [s1 EXCEPT !.css = setCSSVariables(@, newOptions.duration)]
              ELSE s1
        s3 == IF IsSet(newOptions.repeat) /\ newOptions.repeat # s2.options.repeat
              THEN [s2 EXCEPT !.options.repeat = newOptions.repeat]
              ELSE s2
    IN  IF \/ IsSet(newOptions.offset) /\ newOptions.offset # s3.options.offset
           \/ IsSet(newOptions.debug) /\ newOptions.debug # s3.options.debug
        THEN recreateSentinel([s3 EXCEPT !.options = Spread(@, newOptions, undefinedKeys)])
        ELSE s3

\* runeScroller(element, options) with window defined, lines 35-140.
\* hasResizeObserver is typeof ResizeObserver !== 'undefined'.  createSentinel
\* returns the plain object {element, id}, and lines 86 and 94-95 hand that
\* object to wrapper.appendChild and to observer.observe.  strictNodes tells
\* what the platform does with an argument that is not a Node: a DOM that
\* checks its arguments raises TypeError at line 86 and no handle is
\* returned; a DOM that does not check leaves the wrapper as it is and the
\* observer keeps the object in its set of targets.
runeScroller(s, opts, hasResizeObserver, strictNodes) ==
    LET requested == IF IsSet(opts.animation) THEN opts.animation[1] ELSE "fade-in"
        animation == IF requested # "" /\ requested \notin ANIMATION_TYPES
                     THEN "fade-in" ELSE requested
        cls  == IF animation # "" THEN s.classes \cup {"scroll-animate"} ELSE s.classes
        anim == IF animation # "" THEN Some(animation) ELSE s.attrs.dataAnimation
        css1 == IF IsSet(opts.duration) THEN setCSSVariables(s.css, opts.duration) ELSE s.css
        sid  == IF TruthyStr(opts.sentinelId) THEN opts.sentinelId ELSE s.attrs.dataSentinelId
        d1   == InsertAdjacentBeforeBegin(s.dom, TARGET, WRAPPER)
        d2   == WrapperAppendChild(d1, TARGET)
        r    == createSentinel(s.height, opts.debug, opts.offset, opts.sentinelColor,
                               opts.debugLabel, opts.sentinelId, s.sentinelCounter, s.made)
        m    == createManagedObserver(SentinelObject(r.sentinel.node))
        s1   == [s EXCEPT !.classes = cls,
                          !.attrs = [dataAnimation |-> anim, dataSentinelId |-> sid],
                          !.css = css1,
                          !.options = opts,
                          !.dom = d2,
                          !.sentinelCounter = r.counter,
                          !.made = s.made + 1,
                          !.issued = @ \o r.issued]
    IN  IF strictNodes
        THEN [s1 EXCEPT !.thrown = "TypeError"]
        ELSE [s1 EXCEPT !.currentSentinel = Some(r.sentinel),
                        !.state = [isConnected |-> TRUE],
                        !.intersectionObserver = m.observer,
                        !.ioPrev = None,
                        !.resizeObserver = IF hasResizeObserver THEN "observing"
                                           ELSE "undefined",
                        !.roPending = hasResizeObserver,
                        !.thrown = "none"]

\* ------------------------------------------------------------------ inputs
InitialHeight == 100
Heights == {0, InitialHeight}
Bodies  == {<<SIB_A, TARGET, SIB_B>>, <<SIB_A, SIB_B>>}

\* Options passed to runeScroller()
AttachOptions ==
    {[NoOptions EXCEPT !.repeat = rp, !.offset = look[1], !.debug = look[2],
                       !.sentinelId = look[3], !.onVisible = cb] :
        rp   \in {None, Some(TRUE)},
        look \in {<<None, None, None>>, <<Some(-50), Some(TRUE), Some("hero")>>},
        cb   \in {None, Some("record"), Some("throw"), Some("destroy")}}

\* Options passed to update()
UpdateOptions ==
    {NoOptions,
     [NoOptions EXCEPT !.repeat = Some(TRUE)],
     [NoOptions EXCEPT !.repeat = Some(FALSE)],
     [NoOptions EXCEPT !.offset = Some(30)],
     [NoOptions EXCEPT !.debug = Some(TRUE)]}

\* Own keys of an update() argument that hold undefined: none, or debug and
\* sentinelId, as in update({offset: 30, debug: undefined, sentinelId: undefined})
UndefinedKeySets == {{}, {"debug", "sentinelId"}, {"offset", "repeat"}}
UndefinedKeysOf(newOptions) ==
    {k \in UndefinedKeySets : \A f \in k : newOptions[f] = None}

\* ------------------------------------------------------------------ actions
InitWith(bodies, heights) ==
    /\ phase = "unattached"
    /\ dom \in {[body |-> b, wrapper |-> <<>>] : b \in bodies}
    /\ height \in heights
    /\ classes = {}
    /\ attrs = [dataAnimation |-> None, dataSentinelId |-> None]
    /\ css = [duration |-> None, delay |-> None]
    /\ options = NoOptions
    /\ state = [isConnected |-> FALSE]
    /\ intersectionObserver = None
    /\ ioQueue = <<>>
    /\ ioPrev = None
    /\ resizeObserver = "undefined"
    /\ roPending = FALSE
    /\ currentSentinel = None
    /\ sentinelCounter = 0
    /\ made = 0
    /\ body0 = dom.body
    /\ issued = <<>>
    /\ helperCall = None
    /\ updateCount = 0
    /\ onVisibleCalls = <<>>
    /\ unwrapCount = 0
    /\ destroyCount = 0
    /\ inertCalls = {}
    /\ lastEntries = <<>>
    /\ externalChange = FALSE
    /\ thrown = "none"
    /\ everRepeat = FALSE
    /\ animAction = None
    /\ hook = None
    /\ tracker = None
    /\ peer = [phase |-> "unattached", ioQueue |-> <<>>, updateCount |-> 0,
               actor |-> 0, wrapper |-> <<>>, height |-> InitialHeight,
               classes |-> {},
               attrs |-> [dataAnimation |-> None, dataSentinelId |-> None],
               css |-> [duration |-> None, delay |-> None],
               options |-> NoOptions, state |-> [isConnected |-> FALSE],
               intersectionObserver |-> None, ioPrev |-> None,
               resizeObserver |-> "undefined", roPending |-> FALSE,
               currentSentinel |-> None,
               onVisibleCalls |-> <<>>, unwrapCount |-> 0, destroyCount |-> 0,
               thrown |-> "none"]

Init == InitWith(Bodies, {InitialHeight})

\* runeScroller(element, options) in a browser
Attach ==
    /\ phase = "unattached"
    /\ \E opts \in AttachOptions, hasResizeObserver \in BOOLEAN, strictNodes \in BOOLEAN :
          /\ Becomes(runeScroller(Cur, opts, hasResizeObserver, strictNodes))
          /\ phase' = IF strictNodes THEN "failed" ELSE "attached"
    /\ UNCHANGED <<ioQueue, body0, animAction, hook, peer, tracker, lastEntries, inertCalls, externalChange,
                 helperCall, updateCount>>

\* An attach without window that goes on to set the target up
AttachInert_noGuard ==
    /\ phase = "unattached"
    /\ phase' = "inert"
    /\ Becomes(runeScroller(Cur, NoOptions, TRUE, FALSE))
    /\ UNCHANGED <<ioQueue, body0, animAction, hook, peer, tracker, lastEntries, inertCalls, externalChange,
                   helperCall, updateCount>>

\* runeScroller(element, options) where window is undefined, lines 28-33
AttachInert ==
    /\ phase = "unattached"
    /\ phase' = "inert"
    /\ Becomes(Cur)
    /\ UNCHANGED <<ioQueue, body0, animAction, hook, peer, tracker, lastEntries, inertCalls, externalChange,
                 helperCall, updateCount>>

\* update() and destroy() of the inert handle
InertCall ==
    /\ phase = "inert"
    /\ \E op \in {"update", "destroy"} \ inertCalls : inertCalls' = inertCalls \cup {op}
    /\ Becomes(Cur)
    /\ UNCHANGED <<phase, ioQueue, body0, animAction, hook, peer, tracker, lastEntries, externalChange, helperCall, updateCount>>

\* The platform queues an entry for the target the observer observes: the
\* first report after observe(), then one whenever isIntersecting changes.
\* A node outside the document never intersects; for a target that is not a
\* node the platform that accepted it reports either value.
QueueEntry ==
    /\ phase = "attached"
    /\ Observed(Cur) # {}
    /\ Len(ioQueue) < MaxQueue
    /\ \E isIntersecting \in BOOLEAN :
          /\ Some(isIntersecting) # ioPrev
          /\ isIntersecting => \E n \in Observed(Cur) : ~IsNode(n) \/ InDocument(dom, n)
          /\ ioQueue' = Append(ioQueue, isIntersecting)
          /\ Becomes([Cur EXCEPT !.ioPrev = Some(isIntersecting)])
    /\ UNCHANGED <<phase, body0, animAction, hook, peer, tracker, lastEntries, inertCalls, externalChange,
                 helperCall, updateCount>>

\* The platform delivers the queued entries to the callback
IntersectionCallback ==
    /\ phase = "attached"
    /\ ioQueue # <<>>
    /\ (ioQueue[1] /\ IsSet(options.onVisible)) => Len(onVisibleCalls) < MaxVisibleCalls
    /\ (ioQueue[1] /\ options.onVisible = Some("destroy")) => destroyCount < MaxDestroys
    /\ Becomes(intersectionCallback(Cur, ioQueue))
    /\ ioQueue' = <<>>
    /\ lastEntries' = <<ioQueue[1], ioQueue[Len(ioQueue)]>>
    /\ UNCHANGED <<phase, body0, animAction, hook, peer, tracker, inertCalls, externalChange, helperCall, updateCount>>

\* The target's box changes (h is its new offsetHeight; the same height is a
\* change of width only); an observing ResizeObserver then owes a notification.
ElementResize ==
    /\ phase = "attached"
    /\ \E h \in Heights : Becomes([Cur EXCEPT !.height = h,
                                             !.roPending = (resizeObserver = "observing")])
    /\ UNCHANGED <<phase, ioQueue, body0, animAction, hook, peer, tracker, lastEntries, inertCalls, externalChange,
                 helperCall, updateCount>>

\* The ResizeObserver callback, lines 136-138
ResizeCallback ==
    /\ phase = "attached"
    /\ resizeObserver = "observing"
    /\ roPending
    /\ made < MaxSentinels
    /\ Becomes(recreateSentinel([Cur EXCEPT !.roPending = FALSE]))
    /\ UNCHANGED <<phase, ioQueue, body0, animAction, hook, peer, tracker, lastEntries, inertCalls, externalChange,
                 helperCall, updateCount>>

Update ==
    /\ phase = "attached"
    /\ updateCount < MaxUpdates
    /\ updateCount' = updateCount + 1
    /\ \E newOptions \in UpdateOptions :
       \E undefinedKeys \in UndefinedKeysOf(newOptions) :
          /\ update(Cur, newOptions, undefinedKeys).made <= MaxSentinels
          /\ Becomes(update(Cur, newOptions, undefinedKeys))
    /\ UNCHANGED <<phase, ioQueue, body0, animAction, hook, peer, tracker, lastEntries, inertCalls, externalChange,
                 helperCall>>

Destroy ==
    /\ phase = "attached"
    /\ destroyCount < MaxDestroys
    /\ Becomes(destroy(Cur))
    /\ UNCHANGED <<phase, ioQueue, body0, animAction, hook, peer, tracker, lastEntries, inertCalls, externalChange,
                 helperCall, updateCount>>

\* External code calls element.remove() on the target
ExternalRemove ==
    /\ phase = "attached"
    /\ destroyCount = 0
    /\ ~externalChange
    /\ Becomes([Cur EXCEPT !.dom = NodeRemove(@, TARGET)])
    /\ externalChange' = TRUE
    /\ UNCHANGED <<phase, ioQueue, body0, animAction, hook, peer, tracker, lastEntries, inertCalls, helperCall, updateCount>>

Next ==
    \/ Attach
    \/ AttachInert
    \/ InertCall
    \/ QueueEntry
    \/ IntersectionCallback
    \/ ElementResize
    \/ ResizeCallback
    \/ Update
    \/ Destroy
    \/ ExternalRemove

Spec == Init /\ [][Next]_vars

\* ------------------------------------------------------- resize behaviours
\* The attachment with its resize notifications, updates and destroy, where
\* the platform delivers a resize notification that is due.
NextResize ==
    \/ Attach
    \/ ElementResize
    \/ ResizeCallback
    \/ Update
    \/ Destroy

SpecResize == Init /\ [][NextResize]_vars /\ WF_vars(ResizeCallback)

TypeOK ==
    /\ phase \in {"unattached", "attached", "inert", "failed"}
    /\ height \in Heights
    /\ classes \subseteq {"scroll-animate", "is-visible"}
    /\ state.isConnected \in BOOLEAN
    /\ Len(ioQueue) <= MaxQueue
    /\ made <= MaxSentinels
    /\ destroyCount <= MaxDestroys

\* ------------------------------------------- configuration-centred behaviours
\* A second specification of the same attachment whose attach and update
\* inputs range over the presentation fields (animation, duration, debug
\* colour and label, visibility callback) as well as offset, debug and repeat.
AttachOptionsConfig ==
    {NoOptions,
     [NoOptions EXCEPT !.animation = Some("zoom-in"), !.duration = Some(800),
                       !.repeat = Some(TRUE), !.onVisible = Some("record")],
     [NoOptions EXCEPT !.debug = Some(TRUE), !.offset = Some(20),
                       !.sentinelColor = Some("red"), !.debugLabel = Some("intro")],
     [NoOptions EXCEPT !.animation = Some("invalid-animation")],
     [NoOptions EXCEPT !.animation = Some("")],
     [NoOptions EXCEPT !.animation = Some("zoom-in"), !.duration = Some(800),
                       !.sentinelId = Some("hero")]}

UpdateOptionsConfig ==
    {[NoOptions EXCEPT !.animation = Some("flip")],
     [NoOptions EXCEPT !.duration = Some(500)],
     [NoOptions EXCEPT !.duration = Some(0)],
     [NoOptions EXCEPT !.animation = Some("flip"), !.duration = Some(500)],
     [NoOptions EXCEPT !.onVisible = Some("record")],
     [NoOptions EXCEPT !.sentinelColor = Some("lime"), !.debugLabel = Some("outro")],
     [NoOptions EXCEPT !.repeat = Some(TRUE)],
     [NoOptions EXCEPT !.repeat = Some(FALSE)],
     [NoOptions EXCEPT !.offset = Some(20)],
     [NoOptions EXCEPT !.debug = Some(TRUE)],
     [NoOptions EXCEPT !.debug = Some(FALSE)],
     [NoOptions EXCEPT !.offset = Some(0), !.onVisible = Some("destroy")],
     [NoOptions EXCEPT !.animation = Some("invalid-animation")]}

\* The target starts between its siblings in the body, with any of the heights.
InitConfig == InitWith({<<SIB_A, TARGET, SIB_B>>}, Heights)

AttachConfig ==
    /\ phase = "unattached"
    /\ \E opts \in AttachOptionsConfig, strictNodes \in BOOLEAN :
          /\ Becomes(runeScroller(Cur, opts, TRUE, strictNodes))
          /\ phase' = IF strictNodes THEN "failed" ELSE "attached"
    /\ UNCHANGED <<ioQueue, body0, animAction, hook, peer, tracker, lastEntries, inertCalls, externalChange,
                   helperCall, updateCount>>

UpdateConfig ==
    /\ phase = "attached"
    /\ updateCount < MaxUpdates
    /\ updateCount' = updateCount + 1
    /\ \E newOptions \in UpdateOptionsConfig :
       \E undefinedKeys \in UndefinedKeysOf(newOptions) :
          /\ update(Cur, newOptions, undefinedKeys).made <= MaxSentinels
          /\ Becomes(update(Cur, newOptions, undefinedKeys))
    /\ UNCHANGED <<phase, ioQueue, body0, animAction, hook, peer, tracker, lastEntries, inertCalls, externalChange,
                   helperCall>>

NextConfig ==
    \/ AttachConfig
    \/ QueueEntry
    \/ IntersectionCallback
    \/ ResizeCallback
    \/ UpdateConfig
    \/ Destroy

SpecConfig == InitConfig /\ [][NextConfig]_vars

\* ------------------------------------------------- direct calls of the helpers
\* A third specification: the exported helpers createSentinel and
\* disconnectObserver called directly, as the unit tests do, on arguments
\* drawn from small sets.  helperCall keeps the arguments and the result of
\* the last call.
HelperOffsets   == {None, Some(0), Some(50), Some(-25)}
HelperDebugs    == {None, Some(FALSE), Some(TRUE)}
HelperIds       == {None, Some(""), Some("custom-id")}
HelperObservers == {None, Some({}), Some({SentinelNode(1)})}

CallCreateSentinel ==
    /\ phase = "unattached"
    /\ made < MaxSentinels
    /\ \E h \in Heights, debug \in HelperDebugs, offset \in HelperOffsets,
          sentinelId \in HelperIds :
          LET r == createSentinel(h, debug, offset, None, None, sentinelId,
                                  sentinelCounter, made)
          IN  /\ Becomes([Cur EXCEPT !.height = h,
                                     !.sentinelCounter = r.counter,
                                     !.made = made + 1,
                                     !.issued = @ \o r.issued])
              /\ helperCall' = Some([fn |-> "createSentinel", height |-> h,
                                     debug |-> debug, offset |-> offset,
                                     sentinelId |-> sentinelId,
                                     counterBefore |-> sentinelCounter,
                                     result |-> r])
    /\ UNCHANGED <<phase, ioQueue, body0, animAction, hook, peer, tracker, lastEntries, inertCalls, externalChange,
                   updateCount>>

CallDisconnectObserver ==
    /\ phase = "unattached"
    /\ \E observer \in HelperObservers, isConnected \in BOOLEAN :
          LET st == [isConnected |-> isConnected]
              r  == disconnectObserver(observer, st)
          IN  helperCall' = Some([fn |-> "disconnectObserver", observer |-> observer,
                                  state |-> st, result |-> r])
    /\ Becomes(Cur)
    /\ UNCHANGED <<phase, ioQueue, body0, animAction, hook, peer, tracker, lastEntries, inertCalls, externalChange,
                   updateCount>>

MarginOffsets == {None, Some(0), Some(20), Some(50), Some(100), Some(-25), Some(150)}
RootMargins   == {None, Some(""), Some("0px"), Some("-20% 0px"), Some("-10% 0px -10% 0px")}

CallCalculateRootMargin ==
    /\ phase = "unattached"
    /\ \E offset \in MarginOffsets, rootMargin \in RootMargins :
          helperCall' = Some([fn |-> "calculateRootMargin", offset |-> offset,
                              rootMargin |-> rootMargin,
                              result |-> calculateRootMargin(offset, rootMargin)])
    /\ Becomes(Cur)
    /\ UNCHANGED <<phase, ioQueue, body0, animAction, hook, peer, tracker, lastEntries, inertCalls, externalChange,
                   updateCount>>

NextHelpers ==
    \/ CallCreateSentinel
    \/ CallDisconnectObserver
    \/ CallCalculateRootMargin

SpecHelpers == Init /\ [][NextHelpers]_vars

\* ------------------------------------------------------------ animate action
\* The animate(node, options) action.  The repository holds two versions:
\* src/lib/animate.js keeps one IntersectionObserver and a flag
\* observerConnected; the other (unnamed/part_010) goes through
\* createManagedObserver/disconnectObserver with state.isConnected and builds
\* a new IntersectionObserver in update().  animAction.managed tells which
\* version the action is; the flag is the field isConnected in both.
\* Thresholds are in hundredths (50 is 0.5).
AnimNode == 5

NoAnimateOptions ==
    [animation |-> None, duration |-> None, delay |-> None, offset |-> None,
     threshold |-> None, rootMargin |-> None]

\* value ?? fallback, and a destructuring default
OrElse(m, fallback) == IF IsSet(m) THEN m[1] ELSE fallback

\* setCSSVariables(node, duration, delay) with a duration that is defined
setCSSVariablesBoth(duration, delay) ==
    [duration |-> Some(Ms(duration)), delay |-> Some(Ms(delay))]

\* new IntersectionObserver(callback, {threshold, rootMargin})
NewObserver(threshold, rootMargin) ==
    [observed |-> {}, queue |-> <<>>, prev |-> None,
     threshold |-> threshold, rootMargin |-> rootMargin]

\* observer.observe(n): a first report for n becomes due
Observe(o, n) ==
    IF n \in o.observed THEN o ELSE [o EXCEPT !.observed = @ \cup {n}, !.prev = None]
\* observer.unobserve(n)
Unobserve(o, n) == [o EXCEPT !.observed = @ \ {n}]
\* observer.disconnect()
Disconnect(o) == [o EXCEPT !.observed = {}]

\* animate(node, options) in a browser: animate.js lines 19-60, part_010
\* lines 29-67
animate(managed, opts) ==
    LET animation == OrElse(opts.animation, "fade-in")
        duration  == OrElse(opts.duration, 800)
        delay     == OrElse(opts.delay, 0)
        threshold == OrElse(opts.threshold, 0)
        finalRootMargin == calculateRootMargin(opts.offset, opts.rootMargin)
    IN  [managed |-> managed,
         classes |-> {"scroll-animate"},
         dataAnimation |-> Some(animation),
         css |-> setCSSVariablesBoth(duration, delay),
         animation |-> animation, duration |-> duration, delay |-> delay,
         offset |-> opts.offset, threshold |-> threshold,
         rootMargin |-> opts.rootMargin, finalRootMargin |-> finalRootMargin,
         animated |-> FALSE,
         isConnected |-> TRUE,
         observers |-> <<Observe(NewObserver(threshold, finalRootMargin), AnimNode)>>,
         updates |-> 0, destroys |-> 0, updatesSinceDestroy |-> 0]

\* disconnectObserver(observers[i], state) on the action record
animateDisconnect(a, i) ==
    LET r == disconnectObserver(Some(a.observers[i].observed), [isConnected |-> a.isConnected])
    IN  [a EXCEPT !.observers[i].observed = r.observer[1],
                  !.isConnected = r.state.isConnected]

\* The body of entries.forEach in the callback of observer i, for one entry:
\* animate.js lines 43-52 (always the one observer), part_010 lines 53-61 and
\* 105-111 (the observer whose callback it is)
animateEntry(a, i, isIntersecting) ==
    IF isIntersecting /\ ~a.animated
    THEN LET a1 == [a EXCEPT !.classes = @ \cup {"is-visible"}, !.animated = TRUE]
         IN  IF a.managed
             THEN animateDisconnect(a1, i)
             ELSE [a1 EXCEPT !.observers[1] = Unobserve(@, AnimNode),
                             !.isConnected = FALSE]
    ELSE a

RECURSIVE animateEntries(_, _, _)
animateEntries(a, i, entries) ==
    IF entries = <<>> THEN a
    ELSE animateEntries(animateEntry(a, i, Head(entries)), i, Tail(entries))

\* The callback of observer i handed its queued entries
animateCallback(a, i) ==
    animateEntries([a EXCEPT !.observers[i].queue = <<>>], i, a.observers[i].queue)

\* update(newOptions): animate.js lines 63-103, part_010 lines 70-119
animateUpdate(a, newOptions) ==
    LET a1 == IF IsSet(newOptions.duration)
              THEN [a EXCEPT !.duration = newOptions.duration[1],
                             !.css = setCSSVariablesBoth(newOptions.duration[1],
                                                         OrElse(newOptions.delay, a.delay))]
              ELSE a
        a2 == IF IsSet(newOptions.delay) /\ newOptions.delay[1] # a1.delay
              THEN [a1 EXCEPT !.delay = newOptions.delay[1],
                              !.css = setCSSVariablesBoth(a1.duration, newOptions.delay[1])]
              ELSE a1
        a3 == IF TruthyStr(newOptions.animation) /\ newOptions.animation[1] # a2.animation
              THEN [a2 EXCEPT !.animation = newOptions.animation[1],
                              !.dataAnimation = newOptions.animation]
              ELSE a2
        \* if (observerConnected) { observer.disconnect(); ... } and
        \* disconnectObserver(observer, state) are the same on the first observer
        a4 == animateDisconnect(a3, 1)
        a5 == [a4 EXCEPT !.threshold = OrElse(newOptions.threshold, @),
                         !.offset = IF IsSet(newOptions.offset) THEN newOptions.offset ELSE @,
                         !.rootMargin = IF IsSet(newOptions.rootMargin)
                                        THEN newOptions.rootMargin ELSE @]
        a6 == [a5 EXCEPT !.finalRootMargin = calculateRootMargin(a5.offset, a5.rootMargin)]
        a7 == IF a6.animated THEN a6
              ELSE IF a6.managed
                   THEN [a6 EXCEPT !.observers =
                                      Append(@, Observe(NewObserver(a6.threshold,
                                                                    a6.finalRootMargin),
                                                        AnimNode)),
                                   !.isConnected = TRUE]
                   ELSE [a6 EXCEPT !.observers[1] = Observe(@, AnimNode),
                                   !.isConnected = TRUE]
        r  == IF IsSet(newOptions.threshold) \/ IsSet(newOptions.offset)
                 \/ IsSet(newOptions.rootMargin)
              THEN a7 ELSE a3
    IN  [r EXCEPT !.updates = @ + 1,
                  !.updatesSinceDestroy = IF a.destroys > 0 THEN @ + 1 ELSE @]

\* destroy(): animate.js lines 105-109 (the flag is left as it is), part_010
\* lines 121-123
animateDestroy(a) ==
    LET a1 == IF a.managed
              THEN animateDisconnect(a, 1)
              ELSE IF a.isConnected
                   THEN [a EXCEPT !.observers[1] = Disconnect(@)]
                   ELSE a
    IN  [a1 EXCEPT !.destroys = @ + 1, !.updatesSinceDestroy = 0]

MaxAnimObservers == 3
MaxAnimUpdates   == 3
MaxAnimDestroys  == 2
MaxAnimQueue     == 2

AnimateAttachOptions ==
    {NoAnimateOptions,
     [NoAnimateOptions EXCEPT !.animation = Some("zoom-in"), !.offset = Some(20),
                              !.threshold = Some(50)]}

AnimateUpdateOptions ==
    {[NoAnimateOptions EXCEPT !.threshold = Some(50)],
     [NoAnimateOptions EXCEPT !.offset = Some(50)],
     [NoAnimateOptions EXCEPT !.rootMargin = Some("0px")],
     [NoAnimateOptions EXCEPT !.duration = Some(500), !.animation = Some("flip")],
     [NoAnimateOptions EXCEPT !.delay = Some(100)]}

mainVars == <<prog, hist, hook, peer, tracker>>

AnimateAttach ==
    /\ animAction = None
    /\ \E managed \in BOOLEAN, opts \in AnimateAttachOptions :
          animAction' = Some(animate(managed, opts))
    /\ UNCHANGED mainVars

\* The platform queues an entry for an observer that observes the node: the
\* first report after observe(), then one whenever isIntersecting changes.
AnimateQueueEntry ==
    /\ IsSet(animAction)
    /\ \E i \in DOMAIN animAction[1].observers, isIntersecting \in BOOLEAN :
          LET o == animAction[1].observers[i]
          IN  /\ o.observed # {}
              /\ Len(o.queue) < MaxAnimQueue
              /\ Some(isIntersecting) # o.prev
              /\ animAction' = Some([animAction[1] EXCEPT
                                        !.observers[i].queue = Append(@, isIntersecting),
                                        !.observers[i].prev = Some(isIntersecting)])
    /\ UNCHANGED mainVars

\* The platform delivers the queued entries of one observer to its callback
AnimateCallback ==
    /\ IsSet(animAction)
    /\ \E i \in DOMAIN animAction[1].observers :
          /\ animAction[1].observers[i].queue # <<>>
          /\ animAction' = Some(animateCallback(animAction[1], i))
    /\ UNCHANGED mainVars

AnimateUpdate ==
    /\ IsSet(animAction)
    /\ animAction[1].updates < MaxAnimUpdates
    /\ \E newOptions \in AnimateUpdateOptions :
          /\ Len(animateUpdate(animAction[1], newOptions).observers) <= MaxAnimObservers
          /\ animAction' = Some(animateUpdate(animAction[1], newOptions))
    /\ UNCHANGED mainVars

AnimateDestroy ==
    /\ IsSet(animAction)
    /\ animAction[1].destroys < MaxAnimDestroys
    /\ animAction' = Some(animateDestroy(animAction[1]))
    /\ UNCHANGED mainVars

NextAnimate ==
    \/ AnimateAttach
    \/ AnimateQueueEntry
    \/ AnimateCallback
    \/ AnimateUpdate
    \/ AnimateDestroy

SpecAnimate == Init /\ [][NextAnimate]_vars

\* ------------------------------------------------ useIntersection composables
\* createIntersectionObserver(options, onIntersect, once) of
\* useIntersection.svelte.js, behind useIntersection (once = false) and
\* useIntersectionOnce (once = true).  hook.observer is the index in
\* hook.observers of the observer the variable `observer` refers to, 0 for
\* null; hook.cleanup tells whether the last run of the effect returned its
\* cleanup function; hook.effectPending tells whether a write to `element`
\* has scheduled a re-run of the effect that the scheduler has not performed
\* yet.  An entry is a record [target, isIntersecting].
ElementA == 6
ElementB == 7

MaxHookObservers == 2
MaxHookQueue     == 2

\* createIntersectionObserver, lines 14-21 and 58-68, with default options
createIntersectionObserver(once) ==
    [once |-> once, mounted |-> TRUE, element |-> None, isVisible |-> FALSE,
     hasTriggeredOnce |-> FALSE, observer |-> 0, cleanup |-> FALSE,
     effectPending |-> FALSE, observers |-> <<>>, lastIntersect |-> None,
     firstIntersecting |-> None, reboundSince |-> FALSE]

\* The cleanup function of the effect, lines 53-55
hookCleanup(h) ==
    IF h.cleanup
    THEN [h EXCEPT !.observers[h.observer] = Disconnect(@), !.cleanup = FALSE]
    ELSE h

\* The effect, lines 23-56, run for the current value of element
hookEffect(h) ==
    IF h.element = None
    THEN h
    ELSE [h EXCEPT !.observers = Append(@, Observe(NewObserver(50, "-10% 0px -10% 0px"),
                                                   h.element[1])),
                   !.observer = Len(h.observers) + 1,
                   !.cleanup = TRUE]

\* set element(value), lines 62-64: the assignment only.  A write that
\* changes the $state the effect reads schedules a re-run of the effect of a
\* mounted component; the setter returns before that re-run.
hookSetElement(h, value) ==
    [h EXCEPT !.element = value,
              !.effectPending = @ \/ (h.mounted /\ value # h.element)]

\* The scheduler re-runs the effect that a write has scheduled: the cleanup
\* the previous run returned (lines 53-55), then the effect (lines 23-56) for
\* the value `element` has now.  Several writes before one re-run make one
\* re-run.
hookFlush(h) ==
    IF h.effectPending /\ h.mounted
    THEN [hookEffect(hookCleanup(h)) EXCEPT !.effectPending = FALSE,
                                            !.reboundSince = IsSet(h.firstIntersecting)]
    ELSE h

\* The component is destroyed: the cleanup of the last run is called and a
\* scheduled re-run is dropped.
hookUnmount(h) ==
    [hookCleanup(h) EXCEPT !.mounted = FALSE, !.effectPending = FALSE]

\* A forEach body that goes on after the composable has triggered
hookEntry_noLatch(h, entry) ==
    LET h1 == [h EXCEPT !.isVisible = entry.isIntersecting,
                        !.lastIntersect = Some(entry.isIntersecting)]
    IN  IF h.once /\ entry.isIntersecting
        THEN [h1 EXCEPT !.hasTriggeredOnce = TRUE,
                        !.observers = IF h.observer = 0 THEN @
                                      ELSE [@ EXCEPT ![h.observer] =
                                                Unobserve(@, entry.target)]]
        ELSE h1

\* The body of entries.forEach for one entry, lines 29-41
hookEntry(h, entry) ==
    IF h.once /\ h.hasTriggeredOnce
    THEN h
    ELSE LET h1 == [h EXCEPT !.isVisible = entry.isIntersecting,
                             !.lastIntersect = Some(entry.isIntersecting)]
         IN  IF h.once /\ entry.isIntersecting
             THEN [h1 EXCEPT !.hasTriggeredOnce = TRUE,
                             !.observers = IF h.observer = 0 THEN @
                                           ELSE [@ EXCEPT ![h.observer] =
                                                     Unobserve(@, entry.target)]]
             ELSE h1

RECURSIVE hookEntries(_, _)
hookEntries(h, entries) ==
    IF entries = <<>> THEN h
    ELSE hookEntries(hookEntry(h, Head(entries)), Tail(entries))

\* The first intersecting entry of a batch, if any
RECURSIVE FirstIntersecting(_)
FirstIntersecting(entries) ==
    IF entries = <<>> THEN None
    ELSE IF Head(entries).isIntersecting THEN Some(Head(entries).target)
    ELSE FirstIntersecting(Tail(entries))

\* The callback of observer i handed its queued entries, lines 27-43
hookCallback(h, i) ==
    LET entries == h.observers[i].queue
        h1 == hookEntries([h EXCEPT !.observers[i].queue = <<>>], entries)
    IN  IF h.firstIntersecting = None /\ IsSet(FirstIntersecting(entries))
        THEN [h1 EXCEPT !.firstIntersecting = FirstIntersecting(entries),
                        !.reboundSince = FALSE]
        ELSE h1

otherVars == <<prog, hist, animAction, peer, tracker>>

\* useIntersection(options) or useIntersectionOnce(options) in a component
UseIntersection ==
    /\ hook = None
    /\ \E once \in BOOLEAN : hook' = Some(createIntersectionObserver(once))
    /\ UNCHANGED otherVars

\* The component binds the element, or binds another, or unbinds it; the
\* setter returns with the effect not yet re-run
HookSetElement ==
    /\ IsSet(hook)
    /\ \E value \in {None, Some(ElementA), Some(ElementB)} :
          /\ value # hook[1].element
          /\ IsSet(value) => Len(hook[1].observers) < MaxHookObservers
          /\ hook' = Some(hookSetElement(hook[1], value))
    /\ UNCHANGED otherVars

\* The scheduler performs the re-run of the effect that is due
HookFlush ==
    /\ IsSet(hook)
    /\ hook[1].mounted
    /\ hook[1].effectPending
    /\ hook' = Some(hookFlush(hook[1]))
    /\ UNCHANGED otherVars

\* The component is destroyed: the effect is torn down
HookUnmount ==
    /\ IsSet(hook)
    /\ hook[1].mounted
    /\ hook' = Some(hookUnmount(hook[1]))
    /\ UNCHANGED otherVars

\* The platform queues an entry for a target an observer observes
HookQueueEntry ==
    /\ IsSet(hook)
    /\ \E i \in DOMAIN hook[1].observers, isIntersecting \in BOOLEAN :
          LET o == hook[1].observers[i]
          IN  /\ Len(o.queue) < MaxHookQueue
              /\ Some(isIntersecting) # o.prev
              /\ \E target \in o.observed :
                    hook' = Some([hook[1] EXCEPT
                               !.observers[i].queue =
                                   Append(@, [target |-> target,
                                              isIntersecting |-> isIntersecting]),
                               !.observers[i].prev = Some(isIntersecting)])
    /\ UNCHANGED otherVars

\* The platform delivers the queued entries of one observer to its callback
HookCallback ==
    /\ IsSet(hook)
    /\ \E i \in DOMAIN hook[1].observers :
          /\ hook[1].observers[i].queue # <<>>
          /\ hook' = Some(hookCallback(hook[1], i))
    /\ UNCHANGED otherVars

NextHook ==
    \/ UseIntersection
    \/ HookSetElement
    \/ HookFlush
    \/ HookUnmount
    \/ HookQueueEntry
    \/ HookCallback

SpecHook == Init /\ [][NextHook]_vars

\* ----------------------------------------------------------- two attachments
\* A second runeScroller attachment on another target of the same document.
\* The two calls share the document body and the module variable
\* sentinelCounter (and the ghost counters made and issued); everything else
\* is local to a call.  The handlers above are written for the nodes TARGET
\* and WRAPPER, so the second attachment runs them on a view of the state in
\* which its own target and wrapper bear those names: peer keeps its fields
\* in that view, and only the shared body is renamed on the way in and out.
\* peer.actor is the attachment (1 or 2) that took the last step.
TARGET_B  == 8
WRAPPER_B == 9

MaxPairSentinels == 4
MaxPairQueue     == 1
MaxPairUpdates   == 1
MaxPairDestroys  == 1

Rename(n) ==
    CASE n = TARGET    -> TARGET_B
      [] n = TARGET_B  -> TARGET
      [] n = WRAPPER   -> WRAPPER_B
      [] n = WRAPPER_B -> WRAPPER
      [] OTHER         -> n
RenameSeq(seq) == [i \in DOMAIN seq |-> Rename(seq[i])]

\* The state as attachment w reads it
PairView(w) ==
    IF w = 1
    THEN Cur
    ELSE [dom |-> [body |-> RenameSeq(dom.body), wrapper |-> peer.wrapper],
          height |-> peer.height, classes |-> peer.classes, attrs |-> peer.attrs,
          css |-> peer.css, options |-> peer.options, state |-> peer.state,
          intersectionObserver |-> peer.intersectionObserver,
          ioPrev |-> peer.ioPrev, resizeObserver |-> peer.resizeObserver,
          roPending |-> peer.roPending, currentSentinel |-> peer.currentSentinel,
          sentinelCounter |-> sentinelCounter, made |-> made, issued |-> issued,
          onVisibleCalls |-> peer.onVisibleCalls,
          unwrapCount |-> peer.unwrapCount, destroyCount |-> peer.destroyCount,
          thrown |-> peer.thrown]

PairPhase(w)       == IF w = 1 THEN phase ELSE peer.phase
PairQueue(w)       == IF w = 1 THEN ioQueue ELSE peer.ioQueue
PairUpdateCount(w) == IF w = 1 THEN updateCount ELSE peer.updateCount

\* Attachment w took a step that leaves it in state s, with phase ph, queued
\* entries q and uc update() calls
PairBecomes(w, s, ph, q, uc) ==
    IF w = 1
    THEN /\ Becomes(s)
         /\ phase' = ph
         /\ ioQueue' = q
         /\ updateCount' = uc
         /\ peer' = [peer EXCEPT !.actor = 1]
    ELSE /\ \E t \in {s} :
              /\ peer' = [phase |-> ph, ioQueue |-> q, updateCount |-> uc,
                          actor |-> 2, wrapper |-> t.dom.wrapper,
                          height |-> t.height, classes |-> t.classes,
                          attrs |-> t.attrs, css |-> t.css, options |-> t.options,
                          state |-> t.state,
                          intersectionObserver |-> t.intersectionObserver,
                          ioPrev |-> t.ioPrev, resizeObserver |-> t.resizeObserver,
                          roPending |-> t.roPending,
                          currentSentinel |-> t.currentSentinel,
                          onVisibleCalls |-> t.onVisibleCalls,
                          unwrapCount |-> t.unwrapCount,
                          destroyCount |-> t.destroyCount,
                          thrown |-> t.thrown]
              /\ dom' = [dom EXCEPT !.body = RenameSeq(t.dom.body)]
              /\ sentinelCounter' = t.sentinelCounter
              /\ made' = t.made
              /\ issued' = t.issued
         /\ UNCHANGED <<phase, ioQueue, updateCount, height, classes, attrs, css,
                        options, state, intersectionObserver, ioPrev,
                        resizeObserver, roPending, currentSentinel,
                        onVisibleCalls, unwrapCount, destroyCount, thrown,
                        everRepeat>>

pairRest == <<body0, helperCall, inertCalls, lastEntries, externalChange,
              animAction, hook, tracker>>

PairAttachOptions ==
    {NoOptions,
     [NoOptions EXCEPT !.repeat = Some(TRUE), !.onVisible = Some("record")]}

PairUpdateOptions ==
    {[NoOptions EXCEPT !.offset = Some(30), !.animation = Some("flip")]}

\* Both targets are children of the body
InitPair == InitWith({<<TARGET, TARGET_B>>}, {InitialHeight})

PairAttach(w) ==
    /\ PairPhase(w) = "unattached"
    /\ \E opts \in PairAttachOptions, strictNodes \in BOOLEAN :
          PairBecomes(w, runeScroller(PairView(w), opts, TRUE, strictNodes),
                      IF strictNodes THEN "failed" ELSE "attached", <<>>, 0)
    /\ UNCHANGED pairRest

PairQueueEntry(w) ==
    /\ PairPhase(w) = "attached"
    /\ Observed(PairView(w)) # {}
    /\ Len(PairQueue(w)) < MaxPairQueue
    /\ \E isIntersecting \in BOOLEAN :
          /\ Some(isIntersecting) # PairView(w).ioPrev
          /\ isIntersecting =>
                \E n \in Observed(PairView(w)) :
                    ~IsNode(n) \/ InDocument(PairView(w).dom, n)
          /\ PairBecomes(w, [PairView(w) EXCEPT !.ioPrev = Some(isIntersecting)],
                         "attached", Append(PairQueue(w), isIntersecting),
                         PairUpdateCount(w))
    /\ UNCHANGED pairRest

PairIntersectionCallback(w) ==
    /\ PairPhase(w) = "attached"
    /\ PairQueue(w) # <<>>
    /\ (PairQueue(w)[1] /\ IsSet(PairView(w).options.onVisible))
          => Len(PairView(w).onVisibleCalls) < MaxVisibleCalls
    /\ PairBecomes(w, intersectionCallback(PairView(w), PairQueue(w)),
                   "attached", <<>>, PairUpdateCount(w))
    /\ lastEntries' = IF w = 1
                      THEN <<PairQueue(w)[1], PairQueue(w)[Len(PairQueue(w))]>>
                      ELSE lastEntries
    /\ UNCHANGED <<body0, helperCall, inertCalls, externalChange,
                   animAction, hook, tracker>>

PairResizeCallback(w) ==
    /\ PairPhase(w) = "attached"
    /\ PairView(w).resizeObserver = "observing"
    /\ PairView(w).roPending
    /\ made < MaxPairSentinels
    /\ PairBecomes(w, recreateSentinel([PairView(w) EXCEPT !.roPending = FALSE]),
                   "attached", PairQueue(w), PairUpdateCount(w))
    /\ UNCHANGED pairRest

PairUpdate(w) ==
    /\ PairPhase(w) = "attached"
    /\ PairUpdateCount(w) < MaxPairUpdates
    /\ \E newOptions \in PairUpdateOptions :
          /\ update(PairView(w), newOptions, {}).made <= MaxPairSentinels
          /\ PairBecomes(w, update(PairView(w), newOptions, {}), "attached",
                         PairQueue(w), PairUpdateCount(w) + 1)
    /\ UNCHANGED pairRest

PairDestroy(w) ==
    /\ PairPhase(w) = "attached"
    /\ PairView(w).destroyCount < MaxPairDestroys
    /\ PairBecomes(w, destroy(PairView(w)), "attached", PairQueue(w),
                   PairUpdateCount(w))
    /\ UNCHANGED pairRest

NextPair ==
    \E w \in {1, 2} :
        \/ PairAttach(w)
        \/ PairQueueEntry(w)
        \/ PairIntersectionCallback(w)
        \/ PairResizeCallback(w)
        \/ PairUpdate(w)
        \/ PairDestroy(w)

SpecPair == InitPair /\ [][NextPair]_vars

\* ------------------------------------------- createSentinel of lib/dom-utils.js
\* src/lib/dom-utils.js holds a createSentinel(element, debug, offset) that
\* positions the sentinel itself and follows the element with a
\* ResizeObserver of its own.  The sentinel's inline style is a record of the
\* declarations that matter here; None is a property that is not set.
MaxTrackerResizes == 3   \* resizes of the element per behaviour

NoStyle == [top |-> None, height |-> None, visibility |-> None, background |-> None]

\* updatePosition(), lines 38-42: rect.height + offset into style.top
updatePosition(t) ==
    [t EXCEPT !.style.top = Some(t.rectHeight + t.offset)]

\* Assignment to sentinel.style.cssText, lines 50-55: the declarations of the
\* text replace every inline declaration the element had.
SetCssText(style, debug) ==
    IF debug
    THEN [NoStyle EXCEPT !.height = Some("3px"), !.visibility = Some("visible"),
                         !.background = Some("#00e0ff")]
    ELSE [NoStyle EXCEPT !.height = Some("1px"), !.visibility = Some("hidden")]

\* createSentinel(element, debug = false, offset = 0), lines 35-68.
\* rectHeight is element.getBoundingClientRect().height.
createSentinelTracking(rectHeight, debug, offset) ==
    LET dbg == IF IsSet(debug) THEN debug[1] ELSE FALSE
        off == IF IsSet(offset) THEN offset[1] ELSE 0
        t0  == [rectHeight |-> rectHeight, debug |-> dbg, offset |-> off,
                style |-> NoStyle, debugAttr |-> None,
                resizeObserver |-> "none", roPending |-> FALSE,
                notified |-> 0, resizes |-> 0]
        t1  == updatePosition(t0)
        t2  == [t1 EXCEPT !.style = SetCssText(@, dbg),
                          !.debugAttr = IF dbg THEN Some("true") ELSE @]
    IN  [t2 EXCEPT !.resizeObserver = "observing", !.roPending = TRUE]

\* cleanup() of the returned object, lines 64-66
trackerCleanup(t) ==
    [t EXCEPT !.resizeObserver = "disconnected", !.roPending = FALSE]

TrackerHeights == {0, 100, 250}
TrackerDebugs  == {None, Some(FALSE), Some(TRUE)}
TrackerOffsets == {None, Some(0), Some(-50), Some(20)}

trackerRest == <<prog, hist, animAction, hook, peer>>

CreateTracker ==
    /\ tracker = None
    /\ \E h \in TrackerHeights, debug \in TrackerDebugs, offset \in TrackerOffsets :
          tracker' = Some(createSentinelTracking(h, debug, offset))
    /\ UNCHANGED trackerRest

\* The element's box changes; an observing ResizeObserver owes a notification
TrackerElementResize ==
    /\ IsSet(tracker)
    /\ tracker[1].resizes < MaxTrackerResizes
    /\ \E h \in TrackerHeights \ {tracker[1].rectHeight} :
          tracker' = Some([tracker[1] EXCEPT
                              !.rectHeight = h,
                              !.resizes = @ + 1,
                              !.roPending = (tracker[1].resizeObserver = "observing")])
    /\ UNCHANGED trackerRest

\* The ResizeObserver callback, line 58: updatePosition
TrackerResizeCallback ==
    /\ IsSet(tracker)
    /\ tracker[1].resizeObserver = "observing"
    /\ tracker[1].roPending
    /\ tracker' = Some([updatePosition(tracker[1]) EXCEPT !.roPending = FALSE,
                                                          !.notified = @ + 1])
    /\ UNCHANGED trackerRest

TrackerCleanup ==
    /\ IsSet(tracker)
    /\ tracker[1].resizeObserver = "observing"
    /\ tracker' = Some(trackerCleanup(tracker[1]))
    /\ UNCHANGED trackerRest

NextTracker ==
    \/ CreateTracker
    \/ TrackerElementResize
    \/ TrackerResizeCallback
    \/ TrackerCleanup

SpecTracker == Init /\ [][NextTracker]_vars

\* ---------------------------------------------------------------- properties
Visible         == "is-visible" \in classes
OnceMode        == ~TruthyBool(options.repeat)
ObservedNow     == Observed(Cur)
Live            == phase = "attached"
SentinelNow     == currentSentinel[1].node
\* A step that is the delivery of queued entries to the callback
CallbackStep    == Live /\ ioQueue # <<>> /\ ioQueue' = <<>>
\* A step that is a call of destroy() by the owner of the handle
DestroyCall     == Live /\ destroyCount' = destroyCount + 1 /\ ioQueue' = ioQueue
\* A step in which a live attachment calls createSentinel again: the
\* ResizeObserver callback, or update() with another offset or debug flag
RegenerationStep ==
    /\ Live
    /\ phase' = phase
    /\ IsSet(currentSentinel)
    /\ made' = made + 1

\* C1: every destroy() call leaves the target unwrapped exactly once and the
\* wrapper out of the document, and a call after the first changes nothing.
C1_DestroyIdempotent ==
    [][DestroyCall =>
          /\ unwrapCount' = 1
          /\ ~InDocument(dom', WRAPPER)
          /\ (destroyCount >= 1 => (prog' = prog /\ thrown' = "none"))]_vars

\* C2: in once mode, once the marker is on the target no step removes it,
\* whatever intersection entries are delivered.
C2_OnceModeMarkerStays ==
    [][(Live /\ OnceMode /\ Visible) => Visible']_vars

\* once mode, the marker is present, and the last callback was handed a
\* non-intersecting entry
C2_Witness ==
    /\ Live
    /\ OnceMode
    /\ destroyCount = 0
    /\ Visible
    /\ lastEntries = <<FALSE, FALSE>>

\* C3: on an attachment whose repeat option has been falsy since attach, the
\* marker is on the target only once an intersecting entry has been delivered
\* (C2); from then until destroy() the intersection observer observes
\* nothing, whatever the onVisible callback did and whatever resize
\* notifications and update() calls followed.
C3_OnceDisconnectPermanent ==
    (Live /\ ~everRepeat /\ Visible /\ destroyCount = 0) => ObservedNow = {}

\* C4: in repeat mode, after the callback has been handed one entry the marker
\* is present exactly when that entry is intersecting.
C4_RepeatLockstep ==
    [][(CallbackStep /\ TruthyBool(options.repeat) /\ Len(ioQueue) = 1)
          => (Visible' <=> ioQueue[1])]_vars

\* repeat mode, two recorded triggers, and the marker is off again after a
\* non-intersecting entry
C4_Witness ==
    /\ Live
    /\ TruthyBool(options.repeat)
    /\ Len(onVisibleCalls) >= 2
    /\ lastEntries = <<FALSE, FALSE>>
    /\ ~Visible

\* C5: every onVisible invocation happens in a step that turns the marker from
\* absent to present, once, with the target as argument.
C5_OnVisibleOncePerTransition ==
    [][Len(onVisibleCalls') > Len(onVisibleCalls) =>
          /\ ~Visible
          /\ Visible'
          /\ onVisibleCalls' = Append(onVisibleCalls, TARGET)]_vars

\* C6: the observer observes at most one sentinel in every state, also after
\* a resize notification or an update() that regenerates the sentinel.
C6_AtMostOneObserved ==
    Cardinality(ObservedNow) <= 1

\* createSentinel was called again twice while the observer was observing
C6_Witness ==
    /\ Live
    /\ made = MaxSentinels
    /\ state.isConnected
    /\ Cardinality(ObservedNow) = 1

\* C7: a sentinel replacement ends with the old sentinel out of the wrapper
\* and no longer observed, and the new sentinel current, in the wrapper and
\* the only one observed.
C7_ReplacementSequenced ==
    [][RegenerationStep =>
          /\ currentSentinel'[1].node = SentinelNode(made')
          /\ ~InSeq(currentSentinel[1].node, dom'.wrapper)
          /\ InSeq(currentSentinel'[1].node, dom'.wrapper)
          /\ SentinelObject(currentSentinel[1].node) \notin ObservedNow'
          /\ currentSentinel[1].node \notin ObservedNow']_vars

\* C8: when the first destroy() returns the observer observes nothing, the
\* resize observer is disconnected, and sentinel and wrapper are out of the
\* document.
C8_DestroyReleasesAll ==
    [][(DestroyCall /\ destroyCount = 0) =>
          /\ ObservedNow' = {}
          /\ resizeObserver' # "observing"
          /\ ~InDocument(dom', SentinelNow')
          /\ ~InDocument(dom', WRAPPER)]_vars

\* C9: after destroy(), with no external change of the document, the body has
\* its original children in their original order and no wrapper.
C9_WrapUnwrapRoundTrip ==
    (Live /\ destroyCount >= 1 /\ ~externalChange)
        => /\ dom.body = body0
           /\ ~InDocument(dom, WRAPPER)

\* C10: destroy() after external code removed the target raises no error and
\* leaves the sentinel and the wrapper out of the document.
C10_DestroyAfterExternalRemoval ==
    [][(DestroyCall /\ externalChange)
          => /\ thrown' = "none"
             /\ ~InDocument(dom', SentinelNow')
             /\ ~InSeq(WRAPPER, dom'.body)]_vars

\* A step that is the call update(newOptions) on the handle
UpdateCallWith(newOptions) ==
    /\ Live
    /\ updateCount' = updateCount + 1
    /\ \E undefinedKeys \in UndefinedKeysOf(newOptions) :
          Becomes(update(Cur, newOptions, undefinedKeys))
    /\ UNCHANGED <<phase, ioQueue, body0, animAction, hook, peer, tracker, lastEntries, inertCalls, externalChange,
                   helperCall>>

\* C11: an update() after destroy() raises no error, leaves the observer
\* observing nothing and the connection flag false, and a sentinel it creates
\* is neither observed nor in the document.
C11_UpdateAfterDestroyInert ==
    [][\A newOptions \in UpdateOptions :
          (UpdateCallWith(newOptions) /\ destroyCount >= 1 /\ ObservedNow = {})
              => /\ thrown' = "none"
                 /\ ObservedNow' = {}
                 /\ ~state'.isConnected
                 /\ ~InDocument(dom', SentinelNow')]_vars

\* The offset in pixels that createSentinel uses for an offset option
EffectiveOffset(offset) == IF IsSet(offset) THEN offset[1] ELSE 0

\* C12: when the visibility callback calls destroy(), the callback step
\* raises no error and ends in the state that destroy() called right after a
\* callback without that call would give: observer observing nothing,
\* connection flag false, sentinel and wrapper out of the document, target
\* back in the body.
C12_DestroyInsideCallback ==
    [][(CallbackStep /\ ioQueue[1] /\ options.onVisible = Some("destroy")
            /\ destroyCount = 0)
          => LET plain == intersectionCallback(
                              [Cur EXCEPT !.options.onVisible = Some("record")], ioQueue)
                 after == destroy(plain)
             IN  /\ Becomes([after EXCEPT !.options = options])
                 /\ thrown' = "none"
                 /\ ObservedNow' = {}
                 /\ ~state'.isConnected
                 /\ ~InDocument(dom', SentinelNow')
                 /\ ~InDocument(dom', WRAPPER)
                 /\ InSeq(TARGET, dom'.body)]_vars

\* C15: on a live attachment, update() with an offset or a debug flag that
\* differs from the live one returns with a newly created sentinel as the only
\* sentinel of the wrapper, at the target's height plus the new offset and
\* rendered per the new debug flag.
C15_UpdateRegenerates ==
    [][\A newOptions \in UpdateOptionsConfig :
          LET offsetDiffers ==
                  /\ IsSet(newOptions.offset)
                  /\ EffectiveOffset(newOptions.offset) # EffectiveOffset(options.offset)
              debugDiffers ==
                  /\ IsSet(newOptions.debug)
                  /\ TruthyBool(newOptions.debug) # TruthyBool(options.debug)
              newOffset == IF IsSet(newOptions.offset) THEN newOptions.offset
                           ELSE options.offset
              newDebug  == IF IsSet(newOptions.debug) THEN newOptions.debug
                           ELSE options.debug
          IN  (UpdateCallWith(newOptions) /\ destroyCount = 0
                  /\ (offsetDiffers \/ debugDiffers))
                => /\ made' = made + 1
                   /\ SentinelNow' = SentinelNode(made')
                   /\ dom'.wrapper = <<TARGET, SentinelNow'>>
                   /\ currentSentinel'[1].top = height + EffectiveOffset(newOffset)
                   /\ currentSentinel'[1].debug = TruthyBool(newDebug)
                   /\ currentSentinel'[1].hidden = ~TruthyBool(newDebug)]_vars

\* C16: update() that supplies only animation and/or duration writes them to
\* the target and leaves the current sentinel, the observed set and the
\* connection flag as they were.
C16_PresentationUpdate ==
    [][\A newOptions \in UpdateOptionsConfig :
          (/\ UpdateCallWith(newOptions)
           /\ IsSet(newOptions.animation) \/ IsSet(newOptions.duration)
           /\ \A f \in OptionFields \ {"animation", "duration"} : newOptions[f] = None)
             => /\ IsSet(newOptions.animation) => attrs'.dataAnimation = newOptions.animation
                /\ IsSet(newOptions.duration)
                      => css'.duration = Some(Ms(newOptions.duration[1]))
                /\ currentSentinel' = currentSentinel
                /\ ObservedNow' = ObservedNow
                /\ state' = state]_vars

\* C17: update() that leaves offset and debug alone merges the visibility
\* callback, debug colour, debug label and repeat flag it supplies into the
\* live options.
C17_UpdateMergesAllFields ==
    [][\A newOptions \in UpdateOptionsConfig :
          (UpdateCallWith(newOptions) /\ destroyCount = 0
              /\ newOptions.offset = None /\ newOptions.debug = None)
            => \A f \in {"onVisible", "sentinelColor", "debugLabel", "repeat"} :
                  options'[f] = Spread(options, newOptions, {})[f]]_vars

\* The last direct helper call was of fn
Called(fn) == IsSet(helperCall) /\ helperCall[1].fn = fn

\* C13: createSentinel on a target of height H >= 0 with offset O (0 when
\* absent) returns a sentinel whose top is H + O, also when H is 0.
C13_SentinelTop ==
    Called("createSentinel") =>
        LET c == helperCall[1]
        IN  /\ c.result.sentinel.top = c.height + EffectiveOffset(c.offset)
            /\ c.result.sentinel.node = SentinelNode(made)

\* a sentinel created for a target without height, with a negative offset
C13_Witness ==
    /\ Called("createSentinel")
    /\ helperCall[1].height = 0
    /\ helperCall[1].offset = Some(-25)
    /\ helperCall[1].result.sentinel.top = -25

\* C14: the identifiers generated from the counter are sentinel-k with
\* strictly increasing k, pairwise distinct, and the counter never goes down.
C14_IdsNeverReused ==
    [][/\ sentinelCounter' >= sentinelCounter
       /\ \A i \in DOMAIN issued' :
             \E k \in 1..sentinelCounter' :
                /\ issued'[i] = AutoId(k)
                /\ \A j \in DOMAIN issued' : j < i =>
                      /\ issued'[j] # issued'[i]
                      /\ \E l \in 1..(k - 1) : issued'[j] = AutoId(l)]_vars

\* two identifiers were generated in three creations, one of which had a
\* caller-supplied identifier, and the last creation generated one
C14_Witness ==
    /\ Len(issued) = 2
    /\ made = 3
    /\ Called("createSentinel")
    /\ helperCall[1].sentinelId = None

\* C19: disconnectObserver calls observer.disconnect() once and clears the
\* flag when the flag is set and an observer is given; otherwise it calls
\* nothing and leaves state and observer as they are; a second call on its
\* result does nothing.
C19_DisconnectGuarded ==
    Called("disconnectObserver") =>
        LET c == helperCall[1]
            r == c.result
        IN  /\ (c.state.isConnected /\ IsSet(c.observer))
                  => /\ r.calls = 1
                     /\ r.observer = Some({})
                     /\ ~r.state.isConnected
            /\ ~(c.state.isConnected /\ IsSet(c.observer))
                  => /\ r.calls = 0
                     /\ r.observer = c.observer
                     /\ r.state = c.state
            /\ disconnectObserver(r.observer, r.state).calls = 0
            /\ disconnectObserver(r.observer, r.state).state = r.state

\* called on an observer that still observes a sentinel while the flag is
\* already false
C19_Witness ==
    /\ Called("disconnectObserver")
    /\ helperCall[1].observer = Some({SentinelNode(1)})
    /\ ~helperCall[1].state.isConnected
    /\ helperCall[1].result.observer = Some({SentinelNode(1)})

\* C18: from attach to destroy(), with no external change of the document,
\* the wrapper's children are the target and the current sentinel, nothing
\* else.
C18_WrapperHoldsTargetAndSentinel ==
    (Live /\ destroyCount = 0 /\ ~externalChange)
        => dom.wrapper = <<TARGET, SentinelNow>>

\* The current sentinel is not at the target's height plus the live offset
Stale ==
    /\ IsSet(currentSentinel)
    /\ currentSentinel[1].top # height + EffectiveOffset(options.offset)

\* C20: when the target's height has changed on a live attachment whose
\* resize observer is observing, the sentinel is eventually at the new height
\* plus the live offset, unless destroy() comes first.
C20_ResizeEventuallyRepositions ==
    (Live /\ destroyCount = 0 /\ resizeObserver = "observing" /\ Stale
        /\ made < MaxSentinels)
      ~> (~Stale \/ destroyCount > 0)

\* A step that is a call runeScroller(element, options) in a browser that
\* returned a handle
AttachStep == phase = "unattached" /\ phase' = "attached"
\* A step that is a call runeScroller(element, options) in a browser
AttachCall == phase = "unattached" /\ phase' \in {"attached", "failed"}

\* C22: after attach the target's data-sentinel-id is the identifier of its
\* sentinel, caller-supplied or auto-generated.
C22_TargetCarriesSentinelId ==
    [][AttachStep => attrs'.dataSentinelId = Some(currentSentinel'[1].id)]_vars

\* C23: a sentinel regenerated for an attachment carries the identifier of
\* the sentinel created at attach: the regeneration generates no other
\* identifier.
C23_SentinelIdStable ==
    [][RegenerationStep =>
          \A i \in DOMAIN issued' :
              i > Len(issued) => issued'[i] = currentSentinel[1].id]_vars

\* C24: an attachment made where window is undefined leaves the target, the
\* document and the module as they were, through attach and through every
\* update() and destroy() of the inert handle: no class, attribute or style on
\* the target, no wrapper, no sentinel, no observer.
C24_InertOutsideDocument ==
    phase = "inert" =>
        /\ dom = [body |-> body0, wrapper |-> <<>>]
        /\ classes = {}
        /\ attrs = [dataAnimation |-> None, dataSentinelId |-> None]
        /\ css = [duration |-> None, delay |-> None]
        /\ intersectionObserver = None
        /\ resizeObserver = "undefined"
        /\ currentSentinel = None
        /\ made = 0
        /\ sentinelCounter = 0
        /\ thrown = "none"

\* the inert handle after both update() and destroy() were called on it
C24_Witness ==
    /\ phase = "inert"
    /\ inertCalls = {"update", "destroy"}

\* C26: on an attachment whose repeat option has been falsy since attach and
\* stays falsy, once onVisible has been invoked no step before destroy()
\* invokes it again, whatever the first invocation did.
C26_OnceModeSingleCallback ==
    [][(Live /\ destroyCount = 0 /\ ~everRepeat' /\ Len(onVisibleCalls) >= 1)
          => onVisibleCalls' = onVisibleCalls]_vars

\* C25: an attach whose requested animation is not one of ANIMATION_TYPES
\* writes 'fade-in' to the target's data-animation, raises no error and
\* completes: the wrapper holds the target and the new sentinel, and the
\* observer observes it.
C25_UnknownAnimationFallsBack ==
    [][(AttachCall /\ IsSet(options'.animation)
            /\ options'.animation[1] \notin ANIMATION_TYPES)
          => /\ attrs'.dataAnimation = Some("fade-in")
             /\ thrown' = "none"
             /\ IsSet(currentSentinel')
             /\ dom'.wrapper = <<TARGET, currentSentinel'[1].node>>
             /\ Observed(Cur)' = {currentSentinel'[1].node}]_vars

\* C30: calculateRootMargin returns a provided rootMargin unchanged whatever
\* the offset; without rootMargin and with offset o it returns
\* "-(100 - o)% 0px -o% 0px"; with neither it returns "-10% 0px -10% 0px".
C30_RootMargin ==
    Called("calculateRootMargin") =>
        LET c == helperCall[1]
            o == c.offset[1]
        IN  /\ IsSet(c.rootMargin) => c.result = c.rootMargin[1]
            /\ (c.rootMargin = None /\ IsSet(c.offset)) =>
                  c.result = "-" \o ToString(100 - o) \o "% 0px -"
                                 \o ToString(o) \o "% 0px"
            /\ (c.rootMargin = None /\ c.offset = None) =>
                  c.result = "-10% 0px -10% 0px"
            /\ (c.rootMargin = None /\ c.offset = Some(0)) =>
                  c.result = "-100% 0px -0% 0px"
            /\ (c.rootMargin = None /\ c.offset = Some(20)) =>
                  c.result = "-80% 0px -20% 0px"

\* a call with both an offset and a custom rootMargin that returned the
\* custom rootMargin
C30_Witness ==
    /\ Called("calculateRootMargin")
    /\ helperCall[1].offset = Some(50)
    /\ helperCall[1].rootMargin = Some("-20% 0px")
    /\ helperCall[1].result = "-20% 0px"

\* The observers of the animate action that observe the node now
AnimObserving ==
    {i \in DOMAIN animAction[1].observers : AnimNode \in animAction[1].observers[i].observed}
\* A step in which a callback of the animate action is handed an intersecting entry
AnimIntersectingDelivery ==
    /\ IsSet(animAction)
    /\ \E i \in DOMAIN animAction[1].observers :
          /\ \E k \in DOMAIN animAction[1].observers[i].queue :
                animAction[1].observers[i].queue[k]
          /\ animAction'[1].observers[i].queue = <<>>

\* C27: the first intersecting entry handed to the animate action adds
\* is-visible and ends the observation of the node; from then on, whatever
\* entries and update() calls follow, is-visible stays and no observer of the
\* action observes the node.
C27_AnimateTriggersOnce ==
    [][IsSet(animAction') =>
          /\ AnimIntersectingDelivery => animAction'[1].animated
          /\ animAction'[1].animated =>
                /\ "is-visible" \in animAction'[1].classes
                /\ AnimObserving' = {}]_vars

\* C28: after destroy() of the animate action, with no update() since, no
\* observer of the action observes the node, so that the platform has no
\* entry to queue for it.
C28_AnimateDestroyStopsObservation ==
    (IsSet(animAction) /\ animAction[1].destroys >= 1
        /\ animAction[1].updatesSinceDestroy = 0)
      => AnimObserving = {}

\* The targets that some observer of the composable observes now
HookObserved ==
    UNION {hook[1].observers[i].observed : i \in DOMAIN hook[1].observers}

\* C29: with useIntersectionOnce, isVisible is false as long as no
\* intersecting entry was delivered and true ever after, whatever entries
\* follow; the target of that entry is not observed afterwards, as long as
\* no assignment to element has made the effect run again.
C29_OnceLatches ==
    (IsSet(hook) /\ hook[1].once) =>
        /\ hook[1].isVisible <=> IsSet(hook[1].firstIntersecting)
        /\ (IsSet(hook[1].firstIntersecting) /\ ~hook[1].reboundSince)
              => hook[1].firstIntersecting[1] \notin HookObserved

\* useIntersectionOnce after a batch whose last entry was not intersecting
\* was handed to the callback following the intersecting one
C29_Witness ==
    /\ IsSet(hook)
    /\ hook[1].once
    /\ hook[1].isVisible
    /\ hook[1].firstIntersecting = Some(ElementA)
    /\ hook[1].observers[1].prev = Some(FALSE)
    /\ hook[1].observers[1].queue = <<>>

\* What attachment w owns: the marker and classes, attributes and style of
\* its target, its wrapper (children, and whether wrapper and target are in
\* the body), its sentinel, its live options, and its observers.
Own(w) ==
    LET v == PairView(w)
    IN  [classes |-> v.classes, attrs |-> v.attrs, css |-> v.css,
         wrapper |-> v.dom.wrapper,
         wrapperInBody |-> InSeq(WRAPPER, v.dom.body),
         targetInBody |-> InSeq(TARGET, v.dom.body),
         currentSentinel |-> v.currentSentinel, options |-> v.options,
         state |-> v.state, intersectionObserver |-> v.intersectionObserver,
         resizeObserver |-> v.resizeObserver]

\* The sentinel elements attachment w holds: in its wrapper, as its current
\* sentinel, or under observation
SentinelsOf(w) ==
    LET v == PairView(w)
    IN  ({v.dom.wrapper[i] : i \in DOMAIN v.dom.wrapper} \ {TARGET})
          \cup (IF IsSet(v.currentSentinel) THEN {v.currentSentinel[1].node} ELSE {})
          \cup Observed(v)

\* C21: a step of one attachment (intersection callback, resize callback,
\* update(), destroy(), attach) leaves everything the other attachment owns
\* unchanged, and no sentinel element is held or observed by both.
C21_AttachmentsIndependent ==
    [][/\ \A w \in {1, 2} : peer'.actor = w => Own(3 - w)' = Own(3 - w)
       /\ (SentinelsOf(1) \cap SentinelsOf(2))' = {}]_vars

\* both attached and triggered; the first attachment was then destroyed, after
\* four sentinels were made in all, and the second still observes its sentinel
C21_Witness ==
    /\ phase = "attached"
    /\ peer.phase = "attached"
    /\ peer.actor = 1
    /\ destroyCount = 1
    /\ made = MaxPairSentinels
    /\ "is-visible" \in classes
    /\ "is-visible" \in peer.classes
    /\ peer.state.isConnected
    /\ Observed(PairView(2)) = {SentinelObject(peer.currentSentinel[1].node)}

Watching ==
    /\ state.isConnected
    /\ IsSet(currentSentinel)
    /\ ObservedNow = {SentinelObject(SentinelNow)}

\* C32: an attach in repeat mode leaves the observer connected and observing
\* the sentinel, and every step before destroy() that starts and ends in
\* repeat mode (intersection callback, resize notification, update) keeps it
\* so, observing the sentinel that is current after the step.
C32_RepeatStaysLive ==
    [][/\ (AttachStep /\ TruthyBool(options'.repeat)) => Watching'
       /\ (Live /\ TruthyBool(options.repeat) /\ TruthyBool(options'.repeat)
             /\ Watching /\ destroyCount' = 0) => Watching']_vars

\* repeat true since attach with no update() call, after a trigger, a
\* non-intersecting entry and two resize notifications
C32_Witness ==
    /\ Live
    /\ options.repeat = Some(TRUE)
    /\ updateCount = 0
    /\ destroyCount = 0
    /\ made = 3
    /\ Len(onVisibleCalls) >= 1
    /\ lastEntries = <<FALSE, FALSE>>
    /\ Watching

\* C33: whatever attach and update() calls were made, a data-animation
\* attribute on the target names one of ANIMATION_TYPES.
C33_AnimationAlwaysRecognized ==
    IsSet(attrs.dataAnimation) => attrs.dataAnimation[1] \in ANIMATION_TYPES

\* C34: update() with a duration d >= 0, zero included, leaves --duration at
\* d milliseconds.
C34_UpdateWritesDuration ==
    [][\A newOptions \in UpdateOptionsConfig :
          (UpdateCallWith(newOptions) /\ IsSet(newOptions.duration)
              /\ newOptions.duration[1] >= 0)
            => css'.duration = Some(Ms(newOptions.duration[1]))]_vars

C36_OrphanRoundTrip ==
    [][(DestroyCall /\ destroyCount = 0 /\ ~externalChange
            /\ ~InSeq(TARGET, body0))
          => (thrown' = "none" /\ ParentOf(dom', TARGET) = "none")]_vars

\* C37: a callback handed a batch of entries acts on the last one: in repeat
\* mode the marker is afterwards present exactly when the last entry of the
\* batch is intersecting.
C37_BatchUsesLastEntry ==
    [][(CallbackStep /\ TruthyBool(options.repeat))
          => (Visible' <=> ioQueue[Len(ioQueue)])]_vars

\* C38: at most one IntersectionObserver made by the animate action observes
\* the node at any time, whatever update() calls changed threshold, offset or
\* rootMargin.
C38_OneAnimObserver ==
    IsSet(animAction) => Cardinality(AnimObserving) <= 1

\* C39: destroy() leaves the target's classes (is-visible, scroll-animate),
\* its data-animation and data-sentinel-id attributes and its --duration and
\* --delay properties exactly as they were just before the call.
C39_DestroyKeepsTargetMarks ==
    [][DestroyCall => (classes' = classes /\ attrs' = attrs /\ css' = css)]_vars

\* destroy() was called on a visible target that carries every mark
C39_Witness ==
    /\ Live /\ destroyCount = 1 /\ ~state.isConnected
    /\ classes = {"scroll-animate", "is-visible"}
    /\ attrs.dataAnimation = Some("zoom-in") /\ attrs.dataSentinelId = Some("hero")
    /\ css.duration = Some("800ms")

\* C40: the createSentinel of lib/dom-utils.js returns a sentinel whose top is
\* the target's height plus the offset, in debug and in hidden mode, and after
\* each resize notification the top is the new height plus the offset.
C40_TrackerTopFollowsHeight ==
    [][/\ (tracker = None /\ IsSet(tracker'))
          => tracker'[1].style.top = Some(tracker'[1].rectHeight + tracker'[1].offset)
       /\ (IsSet(tracker) /\ IsSet(tracker') /\ tracker'[1].notified # tracker[1].notified)
          => tracker'[1].style.top = Some(tracker'[1].rectHeight + tracker'[1].offset)]_vars

====
